---- MODULE Spec2Model ----
(***************************************************************************)
(* Model of the adaptive calibration autopilot of                          *)
(* src/OUROBOROS_LAB_AUTOPILOT.py: OuroborosLab.run and the helpers it     *)
(* calls (classify, cost_proxy, _parse_float, _run_once, _best_by,         *)
(* _improvement_ratio, _stagnating).                                       *)
(*                                                                         *)
(* Numbers.  A relative error is a non-negative decimal m * 10^(-k),       *)
(* written <<m, k>>; the absent value (Python None) is <<>>.  Comparisons  *)
(* are exact, so the float division old / new is modelled by the exact     *)
(* quotient; the inputs avoid quotients that sit exactly on a threshold.   *)
(* A duration is a positive number of clock ticks.  cost_proxy is kept as  *)
(* the integer time * (80 + dps) * (20000 + terms), i.e. the cost in units *)
(* of 1 / (80 * 20000) tick.                                               *)
(***************************************************************************)
EXTENDS Integers, Sequences, FiniteSets, TLC

\* ------------------------------------------------------------------ bounds
MaxSteps == 2        \* largest max_steps of a run with a free experiment
MaxStepsAgain == 1   \* largest max_steps of the runs of a reused lab
MaxRuns == 2         \* calls of run() on a reused lab
MaxStepsMock == 7    \* largest max_steps of a run with a scripted experiment
MaxTime == 2         \* longest duration of one trial, in ticks
MaxLog == 5          \* longest synthetic run log handed to _stagnating
MaxStepsFlaky == 3   \* largest max_steps of a run with a crashing experiment
MaxText == 2         \* most lines on the standard output of one trial

\* ------------------------------------------------- decimals and optionals
None == <<>>

Dec(m, k) == <<m, k>>

RECURSIVE Pow10(_)
Pow10(n) == IF n = 0 THEN 1 ELSE 10 * Pow10(n - 1)

\* canonical form: no trailing zero in the mantissa while the exponent is
\* positive; zero is <<0, 0>>
RECURSIVE Norm(_)
Norm(a) ==
  IF a[1] = 0 THEN <<0, 0>>
  ELSE IF a[2] > 0 /\ a[1] % 10 = 0 THEN Norm(<<a[1] \div 10, a[2] - 1>>)
  ELSE a

\* a < b on decimals, exact and without leaving 32 bits
Lt(a, b) ==
  IF a[2] >= b[2]
  THEN LET d == a[2] - b[2] IN
       IF d > 9 THEN 0 < b[1] ELSE (a[1] \div Pow10(d)) < b[1]
  ELSE LET d == b[2] - a[2] IN
       IF b[1] = 0 THEN FALSE
       ELSE IF d > 9 THEN a[1] = 0
       ELSE a[1] <= ((b[1] - 1) \div Pow10(d))

Le(a, b) == ~Lt(b, a)

Scale(a, c) == <<a[1] * c, a[2]>>

Min(x, y) == IF x <= y THEN x ELSE y

\* ------------------------------------------------------------- thresholds
PASS_STRICT == Dec(1, 12)
PASS_GUERR == Dec(1, 9)
WARN_TOL == Dec(1, 7)

MEAN_NOPARSE == "No se pudo parsear rel_err"
MEAN_STRICT == "Cierre de expediente"
MEAN_GUERR == "Puente operativo"
MEAN_WARN == "Subcalibrado"
MEAN_FAIL == "Error alto"

\* classify with the strict threshold one decade too low
classify_tight(rel_err) ==
  IF rel_err = None THEN <<"FAIL", MEAN_NOPARSE>>
  ELSE IF Lt(rel_err, Dec(1, 13)) THEN <<"PASS_STRICT", MEAN_STRICT>>
  ELSE IF Lt(rel_err, PASS_GUERR) THEN <<"PASS_GUERRILLA", MEAN_GUERR>>
  ELSE IF Lt(rel_err, WARN_TOL) THEN <<"WARN", MEAN_WARN>>
  ELSE <<"FAIL", MEAN_FAIL>>

\* classify with the thresholds included in the better tier
classify_closed(rel_err) ==
  IF rel_err = None THEN <<"FAIL", MEAN_NOPARSE>>
  ELSE IF Le(rel_err, PASS_STRICT) THEN <<"PASS_STRICT", MEAN_STRICT>>
  ELSE IF Le(rel_err, PASS_GUERR) THEN <<"PASS_GUERRILLA", MEAN_GUERR>>
  ELSE IF Le(rel_err, WARN_TOL) THEN <<"WARN", MEAN_WARN>>
  ELSE <<"FAIL", MEAN_FAIL>>

classify(rel_err) ==
  IF rel_err = None THEN <<"FAIL", MEAN_NOPARSE>>
  ELSE IF Lt(rel_err, PASS_STRICT) THEN <<"PASS_STRICT", MEAN_STRICT>>
  ELSE IF Lt(rel_err, PASS_GUERR) THEN <<"PASS_GUERRILLA", MEAN_GUERR>>
  ELSE IF Lt(rel_err, WARN_TOL) THEN <<"WARN", MEAN_WARN>>
  ELSE <<"FAIL", MEAN_FAIL>>

\* ------------------------------------------------------------- cost model
CostDpsRef == 80
CostTermsRef == 20000

\* a cost that forgets the measured time
cost_proxy_notime(time_s, dps, terms) ==
  (CostDpsRef + dps) * (CostTermsRef + terms)

cost_proxy(time_s, dps, terms) ==
  time_s * (CostDpsRef + dps) * (CostTermsRef + terms)

\* ------------------------------------------------------ policy of the lab
stagnation_window == 3
stagnation_improve_min == <<1, 10>>     \* 0.10 as a fraction
precision_bump == 40
\* a decision threshold that an unchanged error reaches
cola_ratio_threshold_low == <<9, 10>>

\* a decision threshold above the growth factor
cola_ratio_threshold_high == <<21, 10>>
cola_ratio_threshold == <<18, 10>>      \* 1.8 as a fraction
terms_growth == 2

\* ------------------------------------------------- defaults of run()
DefaultStartDps == 80
DefaultStartTerms == 5000
DefaultMaxDps == 220
DefaultMaxTerms == 100000

\* ------------------------------------------------------- result extractor
\* The captured text is a sequence of lines [label, kind, val]:
\*   kind "num"     the label is followed by "= <decimal literal val>"
\*   kind "bad"     the label is followed by "=" and characters of the
\*                  class [0-9.Ee+-] that float() rejects (e.g. "+" of +inf)
\*   kind "nomatch" the label is present but the pattern does not match
RE_RELERR == "rel_err"
RE_ABSERR == "abs_err"

Line(label, kind, val) == [label |-> label, kind |-> kind, val |-> val]

\* an extractor that reports 0.0 where the source reports None
parse_float_zero(regex, text) ==
  LET hits == {i \in 1..Len(text) :
                 text[i].label = regex /\ text[i].kind # "nomatch"}
  IN IF hits = {} THEN Dec(0, 0)
     ELSE LET m == CHOOSE i \in hits : \A j \in hits : i <= j
          IN IF text[m].kind = "num" THEN Norm(text[m].val) ELSE Dec(0, 0)

\* regex.search: the first match in the text; float(m.group(1)) or None
parse_float(regex, text) ==
  LET hits == {i \in 1..Len(text) :
                 text[i].label = regex /\ text[i].kind # "nomatch"}
  IN IF hits = {} THEN None
     ELSE LET m == CHOOSE i \in hits : \A j \in hits : i <= j
          IN IF text[m].kind = "num" THEN Norm(text[m].val) ELSE None

\* ---------------------------------------------------------- trial executor
\* proc is what subprocess.run returned and the clock measured:
\* [stdout, stderr, returncode, dt]
Proc(so, se, rc, dt) == [stdout |-> so, stderr |-> se, returncode |-> rc, dt |-> dt]

\* a trial executor that sets FAIL from the exit code, whatever the error
run_once_rc(dps_, terms_, proc) ==
  LET out == proc.stdout \o proc.stderr
      rel == parse_float(RE_RELERR, out)
      ab == parse_float(RE_ABSERR, out)
      sm == IF proc.returncode # 0 THEN <<"FAIL", MEAN_FAIL>>
            ELSE classify(rel)
  IN [dps |-> dps_, terms |-> terms_, time_s |-> proc.dt,
      rel_err |-> rel, abs_err |-> ab,
      status |-> sm[1], meaning |-> sm[2],
      cost |-> cost_proxy(proc.dt, dps_, terms_),
      returncode |-> proc.returncode]

\* the RunResult that _run_once builds and appends
run_once(dps_, terms_, proc) ==
  LET out == proc.stdout \o proc.stderr
      rel == parse_float(RE_RELERR, out)
      ab == parse_float(RE_ABSERR, out)
      sm == classify(rel)
  IN [dps |-> dps_, terms |-> terms_, time_s |-> proc.dt,
      rel_err |-> rel, abs_err |-> ab,
      status |-> sm[1], meaning |-> sm[2],
      cost |-> cost_proxy(proc.dt, dps_, terms_),
      returncode |-> proc.returncode]

\* ------------------------------------------------------------ best, ratios
\* the two predicates handed to _best_by, as the sets of statuses they accept
IsStrict == {"PASS_STRICT"}
\* a guerrilla selection that leaves the strict trials out
IsGuerr_only == {"PASS_GUERRILLA"}

IsGuerr == {"PASS_STRICT", "PASS_GUERRILLA"}

\* ties broken by the latest candidate
LastMin(cands) ==
  LET i == CHOOSE i \in 1..Len(cands) :
             /\ \A j \in 1..Len(cands) : cands[i].cost <= cands[j].cost
             /\ \A j \in (i + 1)..Len(cands) : cands[j].cost > cands[i].cost
  IN cands[i]

\* min(cands, key=cost): the first candidate of minimal cost
FirstMin(cands) ==
  LET i == CHOOSE i \in 1..Len(cands) :
             /\ \A j \in 1..Len(cands) : cands[i].cost <= cands[j].cost
             /\ \A j \in 1..(i - 1) : cands[j].cost > cands[i].cost
  IN cands[i]

\* a selection among the trials that exited with code 0 only
best_by_exit0(log, predicate) ==
  LET cands == SelectSeq(log, LAMBDA r : r.status \in predicate
                                          /\ r.returncode = 0)
  IN IF cands = <<>> THEN None ELSE <<FirstMin(cands)>>

best_by(log, predicate) ==
  LET cands == SelectSeq(log, LAMBDA r : r.status \in predicate)
  IN IF cands = <<>> THEN None ELSE <<FirstMin(cands)>>

\* an absent error counts as a halved error
improvement_ratio_absent2(old, new) ==
  IF old = None \/ new = None THEN <<Dec(2, 0), Dec(1, 0)>>
  ELSE IF Le(new, <<0, 0>>) THEN None
  ELSE <<old, new>>

\* old / new as the pair <<old, new>>, or None
improvement_ratio(old, new) ==
  IF old = None \/ new = None THEN None
  ELSE IF Le(new, <<0, 0>>) THEN None
  ELSE <<old, new>>

\* q >= f and q < f for a quotient q = <<num, den>> (den > 0) and a
\* fraction f = <<n, d>>
RatioGe(q, f) == ~Lt(Scale(q[1], f[2]), Scale(q[2], f[1]))
RatioLt(q, f) == Lt(Scale(q[1], f[2]), Scale(q[2], f[1]))

HasRel(r) == r.rel_err # None

\* detects stagnation after every second probe
stagnating_always(log) == TRUE

\* never detects stagnation
stagnating_never(log) == FALSE

\* takes the last window + 1 entries of the whole log, absent ones included
stagnating_noskip(log) ==
  LET n == Len(log)
  IN IF n < stagnation_window + 1 THEN FALSE
     ELSE LET last == SubSeq(log, n - stagnation_window, n)
          IN IF \E i \in 1..Len(last) : last[i].rel_err = None
             THEN FALSE
             ELSE IF \E i \in 2..Len(last) : Le(last[i].rel_err, <<0, 0>>)
             THEN FALSE
             ELSE \A i \in 2..Len(last) :
                    RatioLt(<<last[i - 1].rel_err, last[i].rel_err>>, <<11, 10>>)

\* looks one ratio further back than the window
stagnating_wide(log) ==
  LET parsed == SelectSeq(log, HasRel)
      n == Len(parsed)
  IN IF n < stagnation_window + 2 THEN FALSE
     ELSE LET last == SubSeq(parsed, n - stagnation_window - 1, n)
          IN IF \E i \in 2..Len(last) : Le(last[i].rel_err, <<0, 0>>)
             THEN FALSE
             ELSE \A i \in 2..Len(last) :
                    RatioLt(<<last[i - 1].rel_err, last[i].rel_err>>, <<11, 10>>)

stagnating(log) ==
  LET parsed == SelectSeq(log, HasRel)
      n == Len(parsed)
  IN IF n < stagnation_window + 1 THEN FALSE
     ELSE LET last == SubSeq(parsed, n - stagnation_window, n)
              one_plus == <<stagnation_improve_min[2] + stagnation_improve_min[1],
                            stagnation_improve_min[2]>>
          IN IF \E i \in 2..Len(last) : Le(last[i].rel_err, <<0, 0>>)
             THEN FALSE
             ELSE \A i \in 2..Len(last) :
                    RatioLt(<<last[i - 1].rel_err, last[i].rel_err>>, one_plus)

\* the guerrilla mode also waits for PASS_STRICT
StopSat_strictonly(stop_on_, status) == status = "PASS_STRICT"

StopSat(stop_on_, status) ==
  \/ stop_on_ = "PASS_STRICT" /\ status = "PASS_STRICT"
  \/ stop_on_ = "PASS_GUERRILLA" /\ status \in {"PASS_STRICT", "PASS_GUERRILLA"}

\* ------------------------------------------------- the external experiment
\* values an experiment reports
ErrStrict == Dec(1, 13)
ErrGuerr == Dec(1, 10)
ErrFail == Dec(1, 5)
ErrFail2 == Dec(2, 5)

RelLine(v) == Line(RE_RELERR, "num", v)
TraceLine == Line("Traceback", "nomatch", None)

\* exact decimal of 1 / t, for t a divisor of a power of ten
InvTerms(t) ==
  LET k == CHOOSE k \in 0..9 : Pow10(k) % t = 0 /\ \A j \in 0..(k - 1) : Pow10(j) % t # 0
  IN Dec(Pow10(k) \div t, k)

Times == 1..MaxTime

\* what one launch of the experiment at (dps, terms) can return:
\* "free" is an arbitrary experiment run once on a fresh lab, "reuse" an
\* experiment on a lab whose run() is called several times, "const" always
\* prints rel_err = 1e-5 and exits 0, "inv" always prints rel_err = 1 / terms
\* and exits 0
FreeProcs ==
       {Proc(<<RelLine(ErrStrict)>>, <<>>, 0, t) : t \in Times}
  \cup {Proc(<<RelLine(v)>>, <<>>, 0, 1) : v \in {ErrGuerr, ErrFail, ErrFail2}}
  \cup {Proc(<<RelLine(v)>>, <<>>, 1, 1) : v \in {ErrStrict, ErrFail}}
  \cup {Proc(<<>>, <<TraceLine>>, 1, 1)}
  \cup {Proc(<<Line(RE_RELERR, "bad", None)>>, <<>>, 0, 1)}
  \cup {Proc(<<RelLine(ErrFail), RelLine(ErrStrict)>>, <<>>, 0, 1)}
  \cup {Proc(<<Line(RE_RELERR, "nomatch", None)>>, <<RelLine(ErrFail2)>>, 0, 1)}

ReuseProcs ==
       {Proc(<<RelLine(ErrStrict)>>, <<>>, 0, t) : t \in Times}
  \cup {Proc(<<RelLine(ErrStrict)>>, <<>>, 1, 1)}
  \cup {Proc(<<RelLine(v)>>, <<>>, 0, 1) : v \in {ErrGuerr, ErrFail}}

Experiment(mode_, dps_, terms_) ==
  CASE mode_ = "free" -> FreeProcs
    [] mode_ = "reuse" -> ReuseProcs
    [] mode_ = "const" -> {Proc(<<RelLine(ErrFail)>>, <<>>, 0, 1)}
    [] mode_ = "inv" -> {Proc(<<RelLine(InvTerms(terms_))>>, <<>>, 0, 1)}
    [] mode_ = "flaky" -> {Proc(<<RelLine(ErrFail)>>, <<>>, 0, 1),
                           Proc(<<>>, <<TraceLine>>, 1, 1)}

\* arguments of a call of run(): [start_dps, start_terms, max_dps, max_terms,
\* stop_on, max_steps]
Args(sd, st, md, mt, so, ms) ==
  [start_dps |-> sd, start_terms |-> st, max_dps |-> md, max_terms |-> mt,
   stop_on |-> so, max_steps |-> ms]

StopOns == {"PASS_STRICT", "PASS_GUERRILLA"}

Ceilings == {<<80, 5000>>, <<120, 20000>>, <<120, 100000>>,
             <<DefaultMaxDps, DefaultMaxTerms>>}

ArgSets(mode_) ==
  CASE mode_ = "free" ->
         {Args(DefaultStartDps, DefaultStartTerms, c[1], c[2], so, ms) :
            c \in Ceilings, so \in StopOns, ms \in 0..MaxSteps}
    [] mode_ = "reuse" ->
         {Args(DefaultStartDps, DefaultStartTerms, DefaultMaxDps, DefaultMaxTerms,
               "PASS_GUERRILLA", ms) : ms \in 0..MaxStepsAgain}
    [] mode_ = "flaky" ->
         {Args(DefaultStartDps, DefaultStartTerms, DefaultMaxDps, DefaultMaxTerms,
               "PASS_STRICT", ms) : ms \in 0..MaxStepsFlaky}
    [] OTHER ->
         {Args(DefaultStartDps, DefaultStartTerms, DefaultMaxDps, DefaultMaxTerms,
               so, ms) : so \in StopOns, ms \in 0..MaxStepsMock}

\* ------------------------------------------------------------------- state
VARIABLES
  mode,        \* which experiment experiment_cmd launches
  runs,        \* self._runs
  pc,          \* position of the caller / of run()
  dps, terms, step,                       \* locals of run()
  args,        \* arguments of the current call of run()
  loop_exit,   \* how the for loop was left
  report,      \* the LabReport last built
  written,     \* the current call of run() has written out_json
  runStart,    \* Len(self._runs) when the current call of run() began
  nRun,        \* calls of run() so far on this lab
  stagRet,     \* value returned by the last call of _stagnating
  fn,          \* the function called on its own, "none" inside run()
  fnIn,        \* arguments of that call
  fnOut        \* value it returned, None before the call

vars == <<mode, runs, pc, dps, terms, step, args, loop_exit, report, written,
          runStart, nRun, stagRet, fn, fnIn, fnOut>>

NoArgs == Args(0, 0, 0, 0, "PASS_STRICT", 0)
NoReport == [runs |-> <<>>, best |-> None, best_guerrilla |-> None]

\* OuroborosLab.__init__
Init ==
  /\ mode \in {"free", "reuse", "const", "inv", "flaky"}
  /\ runs = <<>>
  /\ pc = "idle"
  /\ dps = 0 /\ terms = 0 /\ step = 0
  /\ args = NoArgs
  /\ loop_exit = "NONE"
  /\ report = NoReport
  /\ written = FALSE
  /\ runStart = 0
  /\ nRun = 0
  /\ stagRet = FALSE
  /\ fn = "none" /\ fnIn = None /\ fnOut = None

\* one iteration too many
LoopNext_offbyone(step_) ==
  /\ step' = step_
  /\ IF step_ <= args.max_steps
     THEN pc' = "r1" /\ loop_exit' = "RUNNING"
     ELSE pc' = "report" /\ loop_exit' = "STOPPED_BUDGET"

\* the for loop takes its next value of step, or is exhausted
LoopNext(step_) ==
  /\ step' = step_
  /\ IF step_ < args.max_steps
     THEN pc' = "r1" /\ loop_exit' = "RUNNING"
     ELSE pc' = "report" /\ loop_exit' = "STOPPED_BUDGET"

\* a caller invokes run(); a second call reuses the lab
Run ==
  /\ \/ pc = "idle"
     \/ pc = "done" /\ mode = "reuse" /\ nRun < MaxRuns
  /\ \E a \in ArgSets(mode) :
       /\ args' = a
       /\ dps' = a.start_dps
       /\ terms' = a.start_terms
       /\ step' = 0
       /\ IF 0 < a.max_steps
          THEN pc' = "r1" /\ loop_exit' = "RUNNING"
          ELSE pc' = "report" /\ loop_exit' = "STOPPED_BUDGET"
  /\ runStart' = Len(runs)
  /\ nRun' = nRun + 1
  /\ written' = FALSE
  /\ UNCHANGED <<fn, fnIn, fnOut, mode, runs, report, stagRet>>

\* two precision steps at once
BumpDps_twice(d) == Min(args.max_dps, d + 2 * precision_bump)

\* the precision ceiling is ignored
BumpDps_uncapped(d) == d + precision_bump

\* the precision is left as it is
BumpDps_none(d) == d

BumpDps(d) == Min(args.max_dps, d + precision_bump)

\* the series ceiling is ignored
SecondTerms_uncapped(t) == t * terms_growth

\* line 284: series length of the second probe
SecondTerms(t) == Min(args.max_terms, t * terms_growth)

\* lines 271-288: first trial of an iteration, stop check, failure branch,
\* ceiling branch
FirstProbe ==
  /\ pc = "r1"
  /\ \E proc \in Experiment(mode, dps, terms) :
       LET r1 == run_once(dps, terms, proc)
           t2 == SecondTerms(terms)
       IN /\ runs' = Append(runs, r1)
          /\ IF StopSat(args.stop_on, r1.status)
             THEN /\ pc' = "report" /\ loop_exit' = "STOPPED_PASS"
                  /\ UNCHANGED <<dps, step>>
             ELSE IF r1.rel_err = None \/ r1.returncode # 0
             THEN /\ dps' = BumpDps(dps)
                  /\ LoopNext(step + 1)
             ELSE IF t2 = terms
             THEN /\ dps' = BumpDps(dps)
                  /\ LoopNext(step + 1)
             ELSE /\ pc' = "r2"
                  /\ UNCHANGED <<dps, step, loop_exit>>
  /\ UNCHANGED <<fn, fnIn, fnOut, mode, terms, args, report, written,
                 runStart, nRun, stagRet>>

\* lines 290-318: second probe, stop check, cola-vs-precision decision,
\* stagnation
SecondProbe ==
  /\ pc = "r2"
  /\ \E proc \in Experiment(mode, dps, SecondTerms(terms)) :
       LET r1 == runs[Len(runs)]
           t2 == SecondTerms(terms)
           r2 == run_once(dps, t2, proc)
           log == Append(runs, r2)
           ratio == improvement_ratio(r1.rel_err, r2.rel_err)
           cola == ratio # None /\ RatioGe(ratio, cola_ratio_threshold)
           dpsA == IF cola THEN dps
                   ELSE IF dps < args.max_dps THEN BumpDps(dps) ELSE dps
           termsA == t2
           stag == stagnating(log)
       IN /\ runs' = log
          /\ IF StopSat(args.stop_on, r2.status)
             THEN /\ pc' = "report" /\ loop_exit' = "STOPPED_PASS"
                  /\ UNCHANGED <<dps, terms, step, stagRet>>
             ELSE /\ stagRet' = stag
                  /\ IF ~stag
                     THEN dps' = dpsA /\ terms' = termsA /\ LoopNext(step + 1)
                     ELSE IF dpsA < args.max_dps
                     THEN dps' = BumpDps(dpsA) /\ terms' = termsA /\ LoopNext(step + 1)
                     ELSE IF termsA < args.max_terms
                     THEN /\ dps' = dpsA
                          /\ terms' = Min(args.max_terms, termsA * terms_growth)
                          /\ LoopNext(step + 1)
                     ELSE /\ dps' = dpsA /\ terms' = termsA /\ step' = step
                          /\ pc' = "report" /\ loop_exit' = "STOPPED_CANNOT_GROW"
  /\ UNCHANGED <<fn, fnIn, fnOut, mode, args, report, written, runStart, nRun>>

\* subprocess.run raises (the command cannot be launched): the exception
\* leaves _run_once and run()
LaunchFail ==
  /\ pc \in {"r1", "r2"}
  /\ mode = "free"
  /\ pc' = "raised"
  /\ UNCHANGED <<fn, fnIn, fnOut, mode, runs, dps, terms, step, args,
                 loop_exit, report, written, runStart, nRun, stagRet>>

\* a report that lists only the trials that exited with code 0
BuildReport_passing ==
  /\ pc = "report"
  /\ report' = [runs |-> SelectSeq(runs, LAMBDA r : r.returncode = 0),
                best |-> best_by(runs, IsStrict),
                best_guerrilla |-> best_by(runs, IsGuerr)]
  /\ written' = TRUE
  /\ pc' = "done"
  /\ UNCHANGED <<fn, fnIn, fnOut, mode, runs, dps, terms, step, args,
                 loop_exit, runStart, nRun, stagRet>>

\* lines 320-344: best selections, LabReport, json.dump
BuildReport ==
  /\ pc = "report"
  /\ report' = [runs |-> runs,
                best |-> best_by(runs, IsStrict),
                best_guerrilla |-> best_by(runs, IsGuerr)]
  /\ written' = TRUE
  /\ pc' = "done"
  /\ UNCHANGED <<fn, fnIn, fnOut, mode, runs, dps, terms, step, args, loop_exit, runStart, nRun,
                 stagRet>>

\* main, lines 385-390: the trial the summary prints, and the summary
main_best(rep) ==
  IF rep.best_guerrilla # None THEN rep.best_guerrilla ELSE rep.best

main_summary(rep) ==
  IF main_best(rep) # None THEN "best_status" ELSE "No PASS found"

Next == Run \/ FirstProbe \/ SecondProbe \/ LaunchFail \/ BuildReport

Spec == Init /\ [][Next]_vars

\* ------------------------------------------- _stagnating on given run logs
\* relative errors of the logs: 2e-5, 1e-5 (50% better), then 5% better
\* each: 0.95e-5, 0.9025e-5, 0.857375e-5; zero; absent
StagErrs == {Dec(2, 5), Dec(1, 5), Dec(95, 7), Dec(9025, 9), Dec(857375, 11),
             Dec(0, 0), None}

SynthTrial(v) ==
  run_once(DefaultStartDps, DefaultStartTerms,
           Proc(IF v = None THEN <<>> ELSE <<RelLine(v)>>, <<>>, 0, 1))

SynthLogs ==
  UNION {[1..n -> {SynthTrial(v) : v \in StagErrs}] : n \in 0..MaxLog}

InitStag ==
  /\ mode = "free"
  /\ runs \in SynthLogs
  /\ pc = "stag_call"
  /\ dps = 0 /\ terms = 0 /\ step = 0
  /\ args = NoArgs
  /\ loop_exit = "NONE"
  /\ report = NoReport
  /\ written = FALSE
  /\ runStart = 0
  /\ nRun = 0
  /\ stagRet = FALSE
  /\ fn = "none" /\ fnIn = None /\ fnOut = None

CallStagnating ==
  /\ pc = "stag_call"
  /\ stagRet' = stagnating(runs)
  /\ pc' = "stag_ret"
  /\ UNCHANGED <<fn, fnIn, fnOut, mode, runs, dps, terms, step, args, loop_exit, report, written,
                 runStart, nRun>>

NextStag == CallStagnating

SpecStag == InitStag /\ [][NextStag]_vars

\* ------------------------------------ classify, _run_once, cost on inputs
\* relative errors on, next to and between the thresholds, in units of
\* 1e-14 and as powers of ten; zero; absent
ClassifyErrs ==
  {None}
  \cup {Norm(Dec(m, 14)) : m \in {0, 1, 99, 100, 101, 99999, 100000, 100001,
                                  9999999, 10000000, 10000001}}
  \cup {Dec(1, k) : k \in 5..13}
  \cup {Dec(2, 5), Dec(5, 10), Dec(5, 8)}

TextLines ==
  {RelLine(ErrFail), RelLine(ErrStrict), Line(RE_RELERR, "bad", None),
   Line(RE_RELERR, "nomatch", None), Line(RE_ABSERR, "num", ErrGuerr),
   TraceLine}

FnProcs ==
  {Proc(so, se, rc, 1) :
     so \in UNION {[1..n -> TextLines] : n \in 0..MaxText},
     se \in {<<>>, <<TraceLine>>, <<RelLine(ErrFail2)>>},
     rc \in {0, 1}}

FnConfigs ==
  {<<t, d, n>> : t \in 0..MaxTime, d \in {0, DefaultStartDps, 120},
                 n \in {0, DefaultStartTerms, 10000}}

FnTexts ==
  {<<>>, <<RelLine(ErrStrict)>>, <<RelLine(ErrGuerr)>>, <<RelLine(ErrFail)>>}

InitFn ==
  /\ mode = "free"
  /\ runs = <<>>
  /\ pc = "fn_call"
  /\ dps = 0 /\ terms = 0 /\ step = 0
  /\ args = NoArgs
  /\ loop_exit = "NONE"
  /\ report = NoReport
  /\ written = FALSE
  /\ runStart = 0
  /\ nRun = 0
  /\ stagRet = FALSE
  /\ fnOut = None
  /\ \/ fn = "classify" /\ fnIn \in ClassifyErrs \X ClassifyErrs
     \/ fn = "run_once" /\ fnIn \in FnProcs
     \/ fn = "cost" /\ fnIn \in FnConfigs \X FnConfigs \X FnTexts

\* classify on two relative errors
CallClassify ==
  /\ pc = "fn_call" /\ fn = "classify"
  /\ fnOut' = <<classify(fnIn[1]), classify(fnIn[2])>>
  /\ pc' = "fn_ret"
  /\ UNCHANGED <<fn, fnIn, mode, runs, dps, terms, step, args, loop_exit,
                 report, written, runStart, nRun, stagRet>>

\* _run_once on what one launch of the experiment produced
CallRunOnce ==
  /\ pc = "fn_call" /\ fn = "run_once"
  /\ LET rr == run_once(DefaultStartDps, DefaultStartTerms, fnIn)
     IN runs' = Append(runs, rr) /\ fnOut' = rr
  /\ pc' = "fn_ret"
  /\ UNCHANGED <<fn, fnIn, mode, dps, terms, step, args, loop_exit,
                 report, written, runStart, nRun, stagRet>>

\* _run_once twice on the same output, at two configurations and durations
CallCost ==
  /\ pc = "fn_call" /\ fn = "cost"
  /\ LET a == fnIn[1]
         b == fnIn[2]
         ra == run_once(a[2], a[3], Proc(fnIn[3], <<>>, 0, a[1]))
         rb == run_once(b[2], b[3], Proc(fnIn[3], <<>>, 0, b[1]))
     IN runs' = <<ra, rb>> /\ fnOut' = <<ra, rb>>
  /\ pc' = "fn_ret"
  /\ UNCHANGED <<fn, fnIn, mode, dps, terms, step, args, loop_exit,
                 report, written, runStart, nRun, stagRet>>

NextFn == CallClassify \/ CallRunOnce \/ CallCost

SpecFn == InitFn /\ [][NextFn]_vars

\* ---------------------------------------------------------------- C1 .. C8
Last(q) == q[Len(q)]

\* the trials appended by the current call of run()
ThisRun == (runStart + 1)..Len(runs)

C1_Satisfies(i) ==
  \/ args.stop_on = "PASS_STRICT" /\ runs[i].status = "PASS_STRICT"
  \/ args.stop_on = "PASS_GUERRILLA"
       /\ (runs[i].status = "PASS_STRICT" \/ runs[i].status = "PASS_GUERRILLA")

\* C1: a trial whose tier satisfies the configured stop condition is the last
\* entry of the log, the loop has been left through the pass exit right after
\* it, and the loop is left through the pass exit only after such a trial (so
\* a PASS_GUERRILLA trial does not end a strict-only run).
C1_StopEndsRun ==
  /\ \A i \in ThisRun :
       C1_Satisfies(i) =>
         /\ i = Len(runs)
         /\ pc \in {"report", "done"}
         /\ loop_exit = "STOPPED_PASS"
  /\ loop_exit = "STOPPED_PASS" =>
       /\ ThisRun # {}
       /\ C1_Satisfies(Len(runs))

C1_Witness ==
  /\ pc = "done" /\ loop_exit = "STOPPED_PASS"
  /\ args.stop_on = "PASS_STRICT"
  /\ Len(runs) - runStart >= 2
  /\ \E i \in ThisRun : i < Len(runs) /\ runs[i].status = "PASS_GUERRILLA"
  /\ Last(runs).status = "PASS_STRICT"

\* C2: on a fresh lab, a first trial below the strict threshold ends the run
\* at once: the log and the report hold exactly that trial, the loop was left
\* through the pass exit and best-strict is that trial.
C2_FirstStrict ==
  (nRun = 1 /\ Len(runs) >= 1 /\ runs[1].rel_err # None
     /\ Lt(runs[1].rel_err, Dec(1, 12)))
  => /\ Len(runs) = 1
     /\ pc \in {"report", "done"}
     /\ loop_exit = "STOPPED_PASS"
     /\ pc = "done" => /\ written
                       /\ report.runs = <<runs[1]>>
                       /\ report.best = <<runs[1]>>

C2_Witness ==
  /\ pc = "done" /\ nRun = 1
  /\ Len(runs) = 1 /\ runs[1].rel_err = Dec(1, 13)
  /\ report.best = <<runs[1]>>

NoStopTrial == \A i \in ThisRun : ~C1_Satisfies(i)

C3_Bounded ==
  /\ step <= args.max_steps
  /\ Len(runs) - runStart <= 2 * args.max_steps
  /\ Len(runs) - runStart <= 2 * step + (IF pc = "r2" THEN 1 ELSE 2)
  /\ args.max_steps = 0 => Len(runs) = runStart
  /\ pc \in {"r1", "r2"} => step < args.max_steps
  /\ (pc \in {"report", "done"} /\ step = args.max_steps /\ NoStopTrial)
       => loop_exit = "STOPPED_BUDGET"
  /\ (pc = "done" /\ loop_exit = "STOPPED_BUDGET")
       => /\ step = args.max_steps
          /\ NoStopTrial
          /\ written
          /\ report.runs = runs

InRun == pc \in {"r1", "r2", "report"}

\* steps a call of run() can still take
Rank ==
  CASE pc = "r1" -> 2 * (args.max_steps - step) + 2
    [] pc = "r2" -> 2 * (args.max_steps - step) + 1
    [] pc = "report" -> 1
    [] OTHER -> 0

C3_Progress == InRun => (Rank' < Rank /\ Rank' >= 0)

\* inside a call, the next step is possible (for the second probe: the
\* experiment has something to return; the probe has no other guard)
C3_CanStep ==
  /\ pc = "r1" => ENABLED FirstProbe
  /\ pc = "r2" => Experiment(mode, dps, Min(args.max_terms, terms * terms_growth)) # {}
  /\ pc = "report" => ENABLED BuildReport

\* C3: a call of run() whose processes all return ends: inside a call a step
\* that returns is always possible and every step lowers a natural-number
\* rank; the loop makes at most max_steps iterations and appends at most
\* 2 * max_steps trials (none when max_steps = 0); when the loop is exhausted
\* with no stop-satisfying trial it is left as STOPPED_BUDGET and the report
\* of the whole log is written.
C3_Terminates == [](C3_Bounded /\ C3_CanStep) /\ [][C3_Progress]_vars

C3_Witness ==
  /\ pc = "done" /\ loop_exit = "STOPPED_BUDGET"
  /\ args.max_steps = MaxSteps
  /\ Len(runs) - runStart = 2 * args.max_steps
  /\ written /\ report.runs = runs

\* C4: a call of run() that recorded at least one trial ends with a written
\* report holding the trials recorded so far, also when a later launch fails.
C4_ReportAlways ==
  (pc \in {"done", "raised"} /\ Len(runs) > runStart)
  => (written /\ report.runs = runs)

\* C5 as stated: default policy, max_steps = 5, rel_err always 1e-5: the run
\* ends after at most 5 trials with neither best selection.
C5_AtMostFiveTrials ==
  (mode = "const" /\ args.max_steps = 5)
  => /\ Len(runs) <= 5
     /\ pc = "done" => (report.best = None /\ report.best_guerrilla = None)

\* C5 amended: max_steps bounds iterations, not trials: the run ends in its
\* 4th iteration through the cannot-grow exit after 8 trials (at most
\* 2 * 5), with neither best selection.
C5_EightTrials ==
  (mode = "const" /\ args.max_steps = 5)
  => /\ Len(runs) <= 8
     /\ step <= 3
     /\ pc = "done" =>
          /\ loop_exit = "STOPPED_CANNOT_GROW"
          /\ Len(report.runs) = 8
          /\ \A i \in 1..8 : report.runs[i].status = "FAIL"
          /\ report.best = None
          /\ report.best_guerrilla = None

C5_Witness ==
  /\ mode = "const" /\ args.max_steps = 5 /\ pc = "done"
  /\ args.max_dps = 220 /\ args.max_terms = 100000
  /\ Len(report.runs) = 8
  /\ report.runs[8].rel_err = Dec(1, 5)
  /\ dps = 220 /\ terms = 100000

\* C6 as stated: rel_err = 1 / terms: every trial runs at the starting
\* precision, series length never decreases, no cannot-grow exit below
\* max_terms.
C6_AlwaysStartPrecision ==
  mode = "inv"
  => /\ \A i \in ThisRun : runs[i].dps = args.start_dps
     /\ \A i \in ThisRun : \A j \in ThisRun : i <= j => runs[i].terms <= runs[j].terms
     /\ loop_exit = "STOPPED_CANNOT_GROW" => terms >= args.max_terms

\* C6 amended: with the default policy and arguments, every trial whose
\* series length is below max_terms runs at the starting precision and while
\* the doubled length fits under max_terms the iteration adopts it at
\* unchanged precision; precision is raised only from the iteration whose
\* second probe is capped at max_terms on; series length never decreases and
\* the loop is never left through the cannot-grow exit.
C6_StartPrecisionBelowCeiling ==
  mode = "inv"
  => /\ \A i \in ThisRun : runs[i].terms < args.max_terms => runs[i].dps = args.start_dps
     /\ (pc \in {"r1", "r2"} /\ terms * terms_growth <= args.max_terms)
          => dps = args.start_dps
     /\ \A i \in ThisRun : \A j \in ThisRun : i <= j => runs[i].terms <= runs[j].terms
     /\ loop_exit # "STOPPED_CANNOT_GROW"
     /\ stagRet = FALSE

C6_Witness ==
  /\ mode = "inv" /\ pc = "done"
  /\ \E i \in ThisRun : runs[i].terms = 80000 /\ runs[i].dps = 80
                          /\ runs[i].rel_err = Dec(125, 7)
  /\ \E i \in ThisRun : runs[i].terms = 100000 /\ runs[i].dps = 120

\* C7: once a trial that did not satisfy the stop condition leaves both
\* levers at their ceilings, no further trial is run (the loop is left
\* through the cannot-grow exit).
C7_NoTrialAtCeilings ==
  ~(pc = "r1" /\ Len(runs) > runStart
      /\ dps = args.max_dps /\ terms = args.max_terms)

C8_Stable(log, tiers) ==
  LET S == {i \in 1..Len(log) : log[i].status \in tiers}
      M == {i \in S : \A j \in S : log[i].cost <= log[j].cost}
  IN IF S = {} THEN None
     ELSE <<log[CHOOSE i \in M : \A j \in M : i <= j]>>

C8_StrictTier == {"PASS_STRICT"}
C8_GuerrTier == {"PASS_STRICT", "PASS_GUERRILLA"}

\* C8: in every report best-strict is absent iff the log has no PASS_STRICT
\* trial and otherwise is the earliest PASS_STRICT trial of minimal cost;
\* best-guerrilla is the same over PASS_STRICT or PASS_GUERRILLA trials.
C8_BestIsStableMin ==
  pc = "done" =>
    /\ report.runs = runs
    /\ report.best = C8_Stable(runs, C8_StrictTier)
    /\ report.best_guerrilla = C8_Stable(runs, C8_GuerrTier)
    /\ (report.best = None) <=> (\A i \in 1..Len(runs) : runs[i].status # "PASS_STRICT")

C8_Witness ==
  /\ pc = "done"
  /\ \E i \in 1..Len(runs) : \E j \in 1..Len(runs) :
       /\ i < j
       /\ runs[i].status = "PASS_STRICT" /\ runs[j].status = "PASS_STRICT"
       /\ runs[i].cost = runs[j].cost
       /\ runs[i] # runs[j]
       /\ report.best = <<runs[i]>>

\* ----------------------------------------------------------------- C9, C10
RECURSIVE C9_Parsed(_)
C9_Parsed(log) ==
  IF log = <<>> THEN <<>>
  ELSE IF Head(log).rel_err = None THEN C9_Parsed(Tail(log))
  ELSE <<Head(log).rel_err>> \o C9_Parsed(Tail(log))

\* prev / curr < 1.10
C9_Below(prev, curr) == curr[1] > 0 /\ Lt(Scale(prev, 10), Scale(curr, 11))
\* curr = 0.95 * prev
C9_FivePct(prev, curr) == prev[1] > 0 /\ Norm(Scale(curr, 100)) = Norm(Scale(prev, 95))
\* curr = 0.5 * prev
C10_Half(prev, curr) == prev[1] > 0 /\ Norm(Scale(curr, 2)) = Norm(prev)

\* C9: _stagnating returns true when the parsed errors of the log end with 4
\* values each 5% below its predecessor, and whenever each of the last 3
\* ratios previous / current among the parsed errors is below 1.10 (absent
\* errors skipped).
C9_StagnatingTrue ==
  pc = "stag_ret" =>
    LET e == C9_Parsed(runs)
        n == Len(e)
    IN /\ (n >= 4 /\ \A i \in (n - 2)..n : C9_FivePct(e[i - 1], e[i])) => stagRet = TRUE
       /\ (n >= 4 /\ \A i \in (n - 2)..n : C9_Below(e[i - 1], e[i])) => stagRet = TRUE

C9_Witness ==
  /\ pc = "stag_ret" /\ stagRet = TRUE
  /\ Len(runs) = 5 /\ runs[2].rel_err = None
  /\ C9_Parsed(runs) = <<Dec(1, 5), Dec(95, 7), Dec(9025, 9), Dec(857375, 11)>>

C10_Pattern(e) ==
  LET n == Len(e)
  IN /\ n >= 5
     /\ C10_Half(e[n - 4], e[n - 3])
     /\ \A i \in (n - 2)..n : C9_FivePct(e[i - 1], e[i])

\* C10 as stated: a 50% improvement followed by three 5% improvements makes
\* _stagnating return false.
C10_HalfThenThreeFalse ==
  (pc = "stag_ret" /\ C10_Pattern(C9_Parsed(runs))) => stagRet = FALSE

\* C10 amended: a 50% improvement followed by three 5% improvements makes
\* _stagnating return true (the window holds only the last 3 ratios); it
\* returns false when the 50% improvement is one of the last 3 ratios.
C10_HalfThenThreeTrue ==
  pc = "stag_ret" =>
    LET e == C9_Parsed(runs)
        n == Len(e)
    IN /\ C10_Pattern(e) => stagRet = TRUE
       /\ (n >= 4 /\ \E i \in (n - 2)..n : C10_Half(e[i - 1], e[i])) => stagRet = FALSE

C10_Witness ==
  /\ pc = "stag_ret" /\ stagRet = TRUE
  /\ C9_Parsed(runs) = <<Dec(2, 5), Dec(1, 5), Dec(95, 7), Dec(9025, 9), Dec(857375, 11)>>

\* --------------------------------------------------------------- C11 .. C20
\* a relative error below 1e-4 in whole units of 1e-14
C11_Units(e) == IF e[1] = 0 THEN 0 ELSE e[1] * Pow10(14 - e[2])

C11_Tier(e) ==
  IF e = None THEN "FAIL"
  ELSE IF C11_Units(e) < 100 THEN "PASS_STRICT"
  ELSE IF C11_Units(e) < 100000 THEN "PASS_GUERRILLA"
  ELSE IF C11_Units(e) < 10000000 THEN "WARN"
  ELSE "FAIL"

C11_Rank(status) ==
  CASE status = "PASS_STRICT" -> 0
    [] status = "PASS_GUERRILLA" -> 1
    [] status = "WARN" -> 2
    [] status = "FAIL" -> 3

\* C11: classify gives every optional relative error the one tier of the
\* half-open thresholds (e < 1e-12 PASS_STRICT, 1e-12 <= e < 1e-9
\* PASS_GUERRILLA, 1e-9 <= e < 1e-7 WARN, e >= 1e-7 FAIL), an absent value
\* gives FAIL with a reason different from that of a numeric FAIL, and for
\* e1 <= e2 the tier of e1 is never worse than the tier of e2
C11_TierOfError ==
  (pc = "fn_ret" /\ fn = "classify") =>
    /\ \A i \in 1..2 : fnOut[i][1] = C11_Tier(fnIn[i])
    /\ (fnIn[1] = None /\ fnIn[2] # None /\ fnOut[2][1] = "FAIL")
         => (fnOut[1][1] = "FAIL" /\ fnOut[1][2] # fnOut[2][2])
    /\ (fnIn[1] # None /\ fnIn[2] # None
          /\ C11_Units(fnIn[1]) <= C11_Units(fnIn[2]))
         => C11_Rank(fnOut[1][1]) <= C11_Rank(fnOut[2][1])

\* both lower thresholds themselves were classified, into the worse tier
C11_Witness ==
  /\ pc = "fn_ret" /\ fn = "classify"
  /\ fnIn = <<Dec(1, 12), Dec(1, 9)>>
  /\ fnOut[1][1] = "PASS_GUERRILLA" /\ fnOut[2][1] = "WARN"

\* the captured output of a launch: stdout, then stderr
C12_Text(proc) == proc.stdout \o proc.stderr

C12_Nums(text) ==
  {i \in 1..Len(text) : text[i].label = RE_RELERR /\ text[i].kind = "num"}

\* C12: when the captured output holds several "rel_err = <number>" lines,
\* the recorded relative error is the value of the last of them
C12_LastOccurrenceWins ==
  (pc = "fn_ret" /\ fn = "run_once") =>
    LET text == C12_Text(fnIn)
        nums == C12_Nums(text)
    IN Cardinality(nums) >= 2 =>
         LET m == CHOOSE i \in nums : \A j \in nums : j <= i
         IN fnOut.rel_err = Norm(text[m].val)

\* the lines of a text on which the pattern of a label matches
C13_Hits(regex, text) ==
  {i \in 1..Len(text) : text[i].label = regex /\ text[i].kind # "nomatch"}

\* the pattern matches nowhere, or where it matches first float() fails
C13_NoNumber(regex, text) ==
  \/ C13_Hits(regex, text) = {}
  \/ \E i \in C13_Hits(regex, text) :
       /\ \A j \in C13_Hits(regex, text) : i <= j
       /\ text[i].kind = "bad"

\* C13: for every captured output, a label without a match and a label
\* whose matched text is not a number are both reported as absent (never as
\* 0.0), the trial is recorded all the same, and it is classified FAIL for
\* an unparseable relative error when that is the absent field
C13_AbsentNotZero ==
  (pc = "fn_ret" /\ fn = "run_once") =>
    /\ runs = <<fnOut>>
    /\ C13_NoNumber(RE_RELERR, C12_Text(fnIn)) =>
         /\ fnOut.rel_err = None /\ fnOut.rel_err # Dec(0, 0)
         /\ fnOut.status = "FAIL" /\ fnOut.meaning = MEAN_NOPARSE
    /\ C13_NoNumber(RE_ABSERR, C12_Text(fnIn)) => fnOut.abs_err = None

\* a trial whose only rel_err text is not a number was recorded as FAIL
C13_Witness ==
  /\ pc = "fn_ret" /\ fn = "run_once"
  /\ fnIn.stdout = <<Line(RE_RELERR, "bad", None)>> /\ fnIn.stderr = <<>>
  /\ Len(runs) = 1 /\ runs[1].rel_err = None /\ runs[1].status = "FAIL"

\* C14: the report of a call of run() holds only the trials executed during
\* that call, also when the lab has already served an earlier call
C14_ReportOfThisRunOnly ==
  pc = "done" => report.runs = SubSeq(runs, runStart + 1, Len(runs))

\* what one step of the program does to the run log
C15_Step ==
  IF pc \in {"r1", "r2"} /\ pc' # "raised"
  THEN /\ Len(runs') = Len(runs) + 1
       /\ SubSeq(runs', 1, Len(runs)) = runs
       /\ runs'[Len(runs')].dps = dps
       /\ runs'[Len(runs')].terms =
            IF pc = "r1" THEN terms
            ELSE Min(args.max_terms, terms * terms_growth)
  ELSE runs' = runs

\* C15: every executed trial, whatever its exit code and output, is
\* appended to the run log exactly once and in execution order, no step
\* removes, reorders or rewrites an entry, and the runs list of the report
\* is the whole log in that order
C15_AppendOnlyLog ==
  [][C15_Step]_vars /\ [](pc = "done" => report.runs = runs)

\* a reported log with a trial that exited non-zero after an unparseable one
C15_Witness ==
  /\ pc = "done" /\ Len(runs) >= 3 /\ report.runs = runs
  /\ \E i \in 1..Len(runs) : \E j \in (i + 1)..Len(runs) :
       runs[i].rel_err = None /\ runs[j].returncode # 0

\* the status and reason of a trial are those of its own relative error
C16_OwnTier(r) == <<r.status, r.meaning>> = classify(r.rel_err)

\* C16: every trial of the run log, every entry of the report and both best
\* selections carry the status that classify gives to the trial's own
\* relative error, whatever the exit code, cost or position of the trial
C16_StatusFromError ==
  /\ \A i \in 1..Len(runs) : C16_OwnTier(runs[i])
  /\ \A i \in 1..Len(report.runs) : C16_OwnTier(report.runs[i])
  /\ report.best # None => C16_OwnTier(report.best[1])
  /\ report.best_guerrilla # None => C16_OwnTier(report.best_guerrilla[1])

\* a reported PASS_STRICT trial that exited non-zero, selected as best
C16_Witness ==
  /\ pc = "done" /\ report.best # None
  /\ report.best[1].returncode # 0 /\ report.best[1].status = "PASS_STRICT"
  /\ \E i \in 1..Len(runs) : runs[i].status = "FAIL" /\ runs[i].returncode = 0

\* C17: the cost of a trial is time x (1 + dps/80) x (1 + terms/20000),
\* here in units of 1/(80 x 20000): strictly increasing in the time for a
\* fixed positive dps and terms, non-decreasing in dps and in terms for a
\* fixed non-negative time; two trials with the same output have the same
\* status whatever their costs
C17_CostMonotone ==
  (pc = "fn_ret" /\ fn = "cost") =>
    LET a == fnIn[1]
        b == fnIn[2]
        ca == fnOut[1].cost
        cb == fnOut[2].cost
    IN /\ ca = a[1] * (80 + a[2]) * (20000 + a[3])
       /\ (a[2] = b[2] /\ a[3] = b[3] /\ a[2] > 0 /\ a[3] > 0 /\ a[1] < b[1])
            => ca < cb
       /\ (a[1] = b[1] /\ a[3] = b[3] /\ a[2] <= b[2]) => ca <= cb
       /\ (a[1] = b[1] /\ a[2] = b[2] /\ a[3] <= b[3]) => ca <= cb
       /\ fnOut[1].status = fnOut[2].status

\* the same strict output measured at a cheaper and a dearer configuration
C17_Witness ==
  /\ pc = "fn_ret" /\ fn = "cost"
  /\ fnIn[1] = <<1, DefaultStartDps, DefaultStartTerms>>
  /\ fnIn[2] = <<2, DefaultStartDps, DefaultStartTerms>>
  /\ fnOut[1].cost < fnOut[2].cost
  /\ fnOut[1].status = "PASS_STRICT" /\ fnOut[2].status = "PASS_STRICT"

\* the stop condition of the current call on a status
C18_Stop(status) ==
  \/ status = "PASS_STRICT"
  \/ args.stop_on = "PASS_GUERRILLA" /\ status = "PASS_GUERRILLA"

\* this step runs the first trial of an iteration and the trial neither
\* satisfies the stop condition nor is usable (absent error or exit # 0)
C18_FirstTrialFailed ==
  /\ pc = "r1" /\ Len(runs') = Len(runs) + 1
  /\ ~C18_Stop(runs'[Len(runs')].status)
  /\ \/ runs'[Len(runs')].rel_err = None
     \/ runs'[Len(runs')].returncode # 0

\* what the failure branch does, and where a first trial runs
C18_Step ==
  /\ C18_FirstTrialFailed =>
       /\ pc' # "r2" /\ stagRet' = stagRet
       /\ terms' = terms
       /\ dps' = Min(args.max_dps, dps + precision_bump)
       /\ step' = step + 1
       /\ IF step + 1 < args.max_steps
          THEN pc' = "r1"
          ELSE pc' = "report" /\ loop_exit' = "STOPPED_BUDGET"
  /\ (pc = "r1" /\ Len(runs') = Len(runs) + 1) =>
       /\ runs'[Len(runs')].dps = dps
       /\ runs'[Len(runs')].terms = terms

\* C18: after a first trial that does not stop the run and has an absent
\* relative error or a non-zero exit code, no second probe is run and the
\* stagnation detector is not consulted, the series length is unchanged,
\* precision becomes min(max_dps, p + precision_bump), the iteration is
\* over (the next first trial runs if budget remains, else the run ends
\* normally on the budget), and a first trial always runs at the current
\* configuration
C18_FailureBumpsPrecision == [][C18_Step]_vars

\* a failed first trial below the precision ceiling, then the first trial
\* of the next iteration at the raised precision and the same series length
C18_Witness ==
  /\ Len(runs) - runStart = 2 /\ step >= 1
  /\ runs[runStart + 1].returncode # 0 /\ runs[runStart + 1].status = "FAIL"
  /\ runs[runStart + 2].dps = runs[runStart + 1].dps + precision_bump
  /\ runs[runStart + 2].terms = runs[runStart + 1].terms

\* this step runs the first trial of an iteration, and the trial parsed a
\* relative error, exited 0 and does not satisfy the stop condition
C19_FirstTrialUsable ==
  /\ pc = "r1" /\ Len(runs') = Len(runs) + 1
  /\ ~C18_Stop(runs'[Len(runs')].status)
  /\ runs'[Len(runs')].rel_err # None
  /\ runs'[Len(runs')].returncode = 0

\* C19 as stated: after every such first trial the second diagnostic trial
\* is due, at the unchanged configuration
C19_SecondTrialAlways ==
  [][C19_FirstTrialUsable =>
       (pc' = "r2" /\ dps' = dps /\ terms' = terms)]_vars

C19_Step ==
  /\ (C19_FirstTrialUsable
        /\ Min(args.max_terms, terms * terms_growth) # terms) =>
       (pc' = "r2" /\ dps' = dps /\ terms' = terms)
  /\ pc = "r2" =>
       \/ pc' = "raised" /\ runs' = runs
       \/ /\ Len(runs') = Len(runs) + 1
          /\ runs'[Len(runs')].dps = runs[Len(runs)].dps
          /\ runs'[Len(runs')].terms =
               Min(args.max_terms, runs[Len(runs)].terms * terms_growth)

\* C19 amended: after such a first trial at (p, t) with
\* min(max_terms, t x terms_growth) different from t, the configuration is
\* left alone and the next trial launched is the second diagnostic trial,
\* at precision p and series length min(max_terms, t x terms_growth)
C19_SecondTrialWhenGrowable == [][C19_Step]_vars

\* a second trial ran at the series ceiling, below twice the first one's
\* series length
C19_Witness ==
  /\ Len(runs) - runStart >= 2
  /\ pc # "r2"
  /\ \E i \in (runStart + 1)..(Len(runs) - 1) :
       /\ runs[i].rel_err # None /\ runs[i].returncode = 0
       /\ runs[i].status = "FAIL"
       /\ runs[i + 1].dps = runs[i].dps
       /\ runs[i + 1].terms = args.max_terms
       /\ runs[i].terms < args.max_terms
       /\ args.max_terms < runs[i].terms * terms_growth

C20_Step ==
  (C19_FirstTrialUsable /\ terms = args.max_terms) =>
    /\ dps' = Min(args.max_dps, dps + precision_bump)
    /\ terms' = terms
    /\ step' = step + 1
    /\ pc' # "r2"
    /\ IF step + 1 < args.max_steps
       THEN pc' = "r1" /\ loop_exit' = "RUNNING"
       ELSE pc' = "report" /\ loop_exit' = "STOPPED_BUDGET"

\* C20: after a first trial that parsed, exited 0 and does not stop the
\* run, at a series length that is already max_terms, precision becomes
\* min(max_dps, p + precision_bump), the series length is unchanged, no
\* second trial is run and the loop goes on to its next iteration (or is
\* exhausted)
C20_CeilingBumpsPrecision == [][C20_Step]_vars

\* two first trials in a row at the series ceiling, precision raised after
\* each
C20_Witness ==
  /\ pc = "r1" /\ Len(runs) - runStart >= 2
  /\ terms = args.max_terms
  /\ runs[Len(runs)].terms = terms /\ runs[Len(runs) - 1].terms = terms
  /\ runs[Len(runs)].rel_err # None /\ runs[Len(runs)].returncode = 0
  /\ runs[Len(runs)].status = "FAIL"
  /\ dps = runs[Len(runs)].dps + precision_bump
  /\ runs[Len(runs)].dps = runs[Len(runs) - 1].dps + precision_bump

\* --------------------------------------------------------------- C21 .. C27
\* this step runs the second probe of an iteration and the probe does not
\* satisfy the stop condition
C21_SecondTrialNoStop ==
  /\ pc = "r2" /\ Len(runs') = Len(runs) + 1
  /\ ~C18_Stop(runs'[Len(runs')].status)

\* rel_err(first) / rel_err(second) is defined and at least 18/10
C21_RatioHigh ==
  /\ runs[Len(runs)].rel_err # None /\ runs'[Len(runs')].rel_err # None
  /\ Lt(<<0, 0>>, runs'[Len(runs')].rel_err)
  /\ Le(Scale(runs'[Len(runs')].rel_err, 18), Scale(runs[Len(runs)].rel_err, 10))

C21_Step ==
  (C21_SecondTrialNoStop /\ C21_RatioHigh) =>
    /\ runs[Len(runs)].dps = dps /\ runs[Len(runs)].terms = terms
    /\ runs'[Len(runs')].dps = dps
    /\ dps' = dps
    /\ terms' = runs'[Len(runs')].terms
    /\ terms' = Min(args.max_terms, terms * terms_growth)
    /\ stagRet' = FALSE
    /\ step' = step + 1
    /\ pc' \in {"r1", "report"}
    /\ pc' = "report" => loop_exit' = "STOPPED_BUDGET"

\* C21: after two probes at (p, t) and (p, t2) that do not satisfy the
\* stop condition, with rel_err(first) / rel_err(second) >= 1.8, the
\* configuration of the next iteration is exactly (p, t2) and the
\* stagnation detector does not fire
C21_ColaKeepsPrecision == [][C21_Step]_vars

\* after three stagnating parsed trials a second probe halved the error:
\* the doubled series length was adopted at the same precision
C21_Witness ==
  /\ pc \in {"r1", "report"} /\ Len(runs) >= 4
  /\ \A i \in (Len(runs) - 3)..Len(runs) : runs[i].rel_err # None
  /\ runs[Len(runs) - 3].rel_err = runs[Len(runs) - 2].rel_err
  /\ runs[Len(runs) - 1].rel_err = ErrFail2 /\ runs[Len(runs)].rel_err = ErrFail
  /\ runs[Len(runs) - 1].terms < runs[Len(runs)].terms
  /\ dps = runs[Len(runs)].dps /\ terms = runs[Len(runs)].terms

\* rel_err(first) / rel_err(second) is defined and below 18/10
C22_RatioLow ==
  /\ runs[Len(runs)].rel_err # None /\ runs'[Len(runs')].rel_err # None
  /\ Lt(<<0, 0>>, runs'[Len(runs')].rel_err)
  /\ Lt(Scale(runs[Len(runs)].rel_err, 10), Scale(runs'[Len(runs')].rel_err, 18))

\* the configuration after one precision step at the doubled series length
C22_Dps == Min(args.max_dps, dps + precision_bump)
C22_Terms == Min(args.max_terms, terms * terms_growth)

\* C22 as stated: after two probes that do not stop the run, with a ratio
\* below 1.8, the next first trial is due at precision
\* min(max_dps, p + precision_bump) and series length t2
C22_OneStepAlways ==
  [][(C21_SecondTrialNoStop /\ C22_RatioLow) =>
       (dps' = C22_Dps /\ terms' = C22_Terms)]_vars

C22_Step ==
  (C21_SecondTrialNoStop /\ C22_RatioLow) =>
    /\ runs'[Len(runs')].dps = dps /\ runs'[Len(runs')].terms = C22_Terms
    /\ IF ~stagnating(runs')
       THEN dps' = C22_Dps /\ terms' = C22_Terms /\ step' = step + 1
       ELSE IF C22_Dps < args.max_dps
       THEN /\ dps' = Min(args.max_dps, C22_Dps + precision_bump)
            /\ terms' = C22_Terms /\ step' = step + 1
       ELSE IF C22_Terms < args.max_terms
       THEN /\ dps' = C22_Dps
            /\ terms' = Min(args.max_terms, C22_Terms * terms_growth)
            /\ step' = step + 1
       ELSE /\ dps' = C22_Dps /\ terms' = C22_Terms
            /\ pc' = "report" /\ loop_exit' = "STOPPED_CANNOT_GROW"

\* C22 amended: with a ratio below 1.8 the configuration becomes
\* (min(max_dps, p + precision_bump), t2); the next first trial runs there
\* when the stagnation detector does not fire, and when it fires one more
\* lever is switched on top of it (precision, else series length, else the
\* run ends)
C22_OneStepThenStagnation == [][C22_Step]_vars

\* the unchanged error of the fourth trial made the detector fire: the
\* precision went up two steps in one iteration
C22_Witness ==
  /\ mode = "const" /\ pc = "r1" /\ Len(runs) = 4 /\ stagRet
  /\ dps = runs[4].dps + 2 * precision_bump
  /\ terms = runs[4].terms

\* the precision after the cola-vs-precision decision of this step
C23_Dps == IF C21_RatioHigh THEN dps ELSE C22_Dps

C23_Step ==
  (C21_SecondTrialNoStop /\ stagnating(runs')) =>
    IF C23_Dps < args.max_dps
    THEN /\ dps' = Min(args.max_dps, C23_Dps + precision_bump)
         /\ terms' = C22_Terms
         /\ step' = step + 1 /\ loop_exit' # "STOPPED_CANNOT_GROW"
    ELSE IF C22_Terms < args.max_terms
    THEN /\ dps' = C23_Dps
         /\ terms' = Min(args.max_terms, C22_Terms * terms_growth)
         /\ step' = step + 1 /\ loop_exit' # "STOPPED_CANNOT_GROW"
    ELSE /\ dps' = C23_Dps /\ terms' = C22_Terms
         /\ pc' = "report" /\ loop_exit' = "STOPPED_CANNOT_GROW"

\* C23: when the stagnation detector fires after the configuration update
\* of an iteration, exactly one lever is switched, in this order: precision
\* below max_dps becomes min(max_dps, dps + precision_bump) with the series
\* length unchanged; else a series length below max_terms becomes
\* min(max_terms, terms x terms_growth) with the precision unchanged; else
\* the run ends in STOPPED_CANNOT_GROW, and no trial follows in that run
C23_LeverPriority ==
  /\ [][C23_Step]_vars
  /\ [](loop_exit = "STOPPED_CANNOT_GROW" => pc \in {"report", "done"})

\* the detector fired with both levers at their ceilings
C23_Witness ==
  /\ pc = "report" /\ loop_exit = "STOPPED_CANNOT_GROW" /\ stagRet
  /\ dps = args.max_dps /\ terms = args.max_terms
  /\ \E i \in ThisRun : \E j \in ThisRun :
       runs[i].dps < runs[j].dps /\ runs[i].terms < runs[j].terms

\* C24: when start_dps <= max_dps and start_terms <= max_terms, every trial
\* of the run log has start_dps <= dps <= max_dps and
\* start_terms <= terms <= max_terms, and dps and terms never decrease from
\* a trial to the next one of the log
C24_LogWithinBoundsAndMonotone ==
  (args.start_dps <= args.max_dps /\ args.start_terms <= args.max_terms) =>
    /\ \A i \in 1..Len(runs) :
         /\ args.start_dps <= runs[i].dps /\ runs[i].dps <= args.max_dps
         /\ args.start_terms <= runs[i].terms
         /\ runs[i].terms <= args.max_terms
    /\ \A i \in 1..(Len(runs) - 1) :
         /\ runs[i].dps <= runs[i + 1].dps
         /\ runs[i].terms <= runs[i + 1].terms

\* C25: in every report a present best-strict selection comes with a
\* present best-guerrilla selection of cost at most the best-strict cost;
\* the summary prints the best-guerrilla selection and never falls back to
\* the best-strict one, and it prints "No PASS found" exactly when both
\* selections are absent
C25_GuerrillaCoversStrict ==
  pc = "done" =>
    /\ report.best # None =>
         /\ report.best_guerrilla # None
         /\ report.best_guerrilla[1].cost <= report.best[1].cost
    /\ ~(report.best_guerrilla = None /\ report.best # None)
    /\ main_best(report) = report.best_guerrilla
    /\ main_summary(report) = "No PASS found"
         <=> (report.best = None /\ report.best_guerrilla = None)

\* a report whose best-guerrilla trial is cheaper than its best-strict one
C25_Witness ==
  /\ pc = "done" /\ report.best # None /\ report.best_guerrilla # None
  /\ report.best_guerrilla[1].status = "PASS_GUERRILLA"
  /\ report.best_guerrilla[1].cost < report.best[1].cost
  /\ main_summary(report) = "best_status"

\* a trial was run in this step and its status satisfies the stop condition
C26_Step ==
  (pc \in {"r1", "r2"} /\ Len(runs') = Len(runs) + 1
     /\ C18_Stop(runs'[Len(runs')].status)) =>
    /\ pc' = "report" /\ loop_exit' = "STOPPED_PASS"
    /\ dps' = dps /\ terms' = terms /\ step' = step

\* every trial of a passing tier, whatever its exit code, is a candidate of
\* the selections of the report
C26_Eligible ==
  pc = "done" =>
    \A i \in 1..Len(runs) :
      /\ runs[i].status = "PASS_STRICT" =>
           (report.best # None /\ report.best[1].cost <= runs[i].cost)
      /\ runs[i].status \in {"PASS_STRICT", "PASS_GUERRILLA"} =>
           /\ report.best_guerrilla # None
           /\ report.best_guerrilla[1].cost <= runs[i].cost

\* C26: the stop check and the best selections look at the status only: a
\* trial in a stop-satisfying tier ends the run in STOPPED_PASS with the
\* configuration untouched also when its process exited non-zero, and it
\* is a candidate of the best-strict / best-guerrilla selection
C26_StatusNotExitCode == [][C26_Step]_vars /\ []C26_Eligible

\* a first trial that exited non-zero with a strict error ended the run
\* and is the best-strict selection
C26_Witness ==
  /\ pc = "done" /\ loop_exit = "STOPPED_PASS"
  /\ Len(runs) = 1 /\ runs[1].returncode # 0
  /\ report.best = <<runs[1]>> /\ report.best_guerrilla = <<runs[1]>>
  /\ dps = runs[1].dps /\ terms = runs[1].terms

\* this step runs a second probe whose relative error is absent
C27_SecondAbsent ==
  /\ pc = "r2" /\ Len(runs') = Len(runs) + 1
  /\ runs'[Len(runs')].rel_err = None

\* C27 as stated: after a second probe with an absent relative error the
\* precision is one step higher (if it was below max_dps) and the series
\* length is the doubled one
C27_AbsentOneStepAlways ==
  [][C27_SecondAbsent => (dps' = C22_Dps /\ terms' = C22_Terms)]_vars

C27_Step ==
  C27_SecondAbsent =>
    /\ runs'[Len(runs')].status = "FAIL"
    /\ runs'[Len(runs')].terms = C22_Terms
    /\ dps' >= C22_Dps /\ terms' >= C22_Terms /\ terms' > terms
    /\ dps < args.max_dps => dps' > dps
    /\ ~stagnating(runs') =>
         (dps' = C22_Dps /\ terms' = C22_Terms /\ step' = step + 1)
    /\ stagnating(runs') =>
         \/ /\ C22_Dps < args.max_dps
            /\ dps' = Min(args.max_dps, C22_Dps + precision_bump)
            /\ terms' = C22_Terms
         \/ /\ C22_Dps = args.max_dps /\ C22_Terms < args.max_terms
            /\ dps' = C22_Dps
            /\ terms' = Min(args.max_terms, C22_Terms * terms_growth)
         \/ /\ C22_Dps = args.max_dps /\ C22_Terms = args.max_terms
            /\ dps' = C22_Dps /\ terms' = C22_Terms
            /\ loop_exit' = "STOPPED_CANNOT_GROW"

\* C27 amended: a second probe with an absent relative error gives an
\* undefined ratio and is treated as precision-bound: the configuration is
\* set to (min(max_dps, p + precision_bump), t2), so both levers advance
\* (precision only if below max_dps); this is the next configuration when
\* the stagnation detector does not fire on the earlier parsed trials, and
\* when it fires one more lever is switched on top of it
C27_AbsentThenStagnation == [][C27_Step]_vars

\* a crashed second probe after four equal parsed errors: the detector
\* fired on top of the precision step
C27_Witness ==
  /\ mode = "flaky" /\ stagRet /\ Len(runs) >= 5
  /\ runs[Len(runs)].rel_err = None
  /\ runs[Len(runs) - 1].rel_err # None
  /\ runs[Len(runs) - 1].terms < runs[Len(runs)].terms
  /\ \/ dps > Min(args.max_dps, runs[Len(runs)].dps + precision_bump)
     \/ terms > runs[Len(runs)].terms

====
